---- MODULE Spec2Model ----
(***************************************************************************)
(* AmpliconSuite-pipeline.py: the stage orchestration of the __main__      *)
(* script, as a state machine.  One run of the script is one behaviour:    *)
(* argv is the command line, args the argparse namespace the script        *)
(* mutates, pc the position in the straight-line script, and the other     *)
(* variables are the files and script globals the script writes.           *)
(***************************************************************************)
EXTENDS Integers, Sequences, FiniteSets, TLC

VARIABLES argv, args, pc, exitCode, exitKind, exitAt, finish_flag, timing_log,
          launched, nonzero, runCNV, aln_stage_stderr, AA_outdir, AC_outdir,
          amplified_interval_bed, cnvkit_output_directory, metadata_dict,
          run_metadata_writes, detected, substeps, determined_ref, warnings,
          call, ret

vars == <<argv, args, pc, exitCode, exitKind, exitAt, finish_flag, timing_log,
          launched, nonzero, runCNV, aln_stage_stderr, AA_outdir, AC_outdir,
          amplified_interval_bed, cnvkit_output_directory, metadata_dict,
          run_metadata_writes, detected, substeps, determined_ref, warnings,
          call, ret>>

\* the variables of the script's run
mainvars == <<argv, args, pc, exitCode, exitKind, exitAt, finish_flag,
              timing_log, launched, nonzero, runCNV, aln_stage_stderr,
              AA_outdir, AC_outdir, amplified_interval_bed,
              cnvkit_output_directory, metadata_dict, run_metadata_writes,
              detected, substeps, determined_ref, warnings>>

\* one call of a function of the script on its own: the call and what it
\* returned, raised, logged and launched
fnvars == <<call, ret>>

-----------------------------------------------------------------------------
(* Python values *)

\* Python's None, for string-valued names
None == "<None>"

\* a name that was never assigned: reading it raises NameError
Unassigned == "<unassigned>"

\* Python truthiness of an optional string
Truthy(s) == s # None /\ s # ""

\* str.endswith
EndsWith(s, suf) ==
    Len(s) >= Len(suf) /\ SubSeq(s, Len(s) - Len(suf) + 1, Len(s)) = suf

\* str.lower, on the values --completed_run_metadata takes here
Lower(s) == IF s \in {"none", "NONE"} THEN "none" ELSE s

-----------------------------------------------------------------------------
(* The files of the output directory *)

\* the finish flag file does not exist
Absent == "<absent>"

UNSUCCESSFUL == "UNSUCCESSFUL"

AllStagesCompleted == "All stages completed"

\* what a previous run into the same output directory may have left
FlagContents == {Absent, UNSUCCESSFUL, AllStagesCompleted}

-----------------------------------------------------------------------------
(* The command line *)

RefChoices == {"hg19", "hg38"}

CnvBedChoices == {"calls.bed", "calls.cns", "s_AA_CNV_SEEDS.bed",
                  "s_CNV_CALLS_pre_filtered.bed"}

Argvs ==
    [bam : {None, "s.bam"},
     fastqs : {None, "r1.fq r2.fq"},
     completed_AA_runs : {None, "runs/"},
     cnv_bed : {None} \cup CnvBedChoices,
     cnvkit_dir : {"", "/ck"},
     completed_run_metadata : {"", "none", "meta.json"},
     align_only : BOOLEAN,
     ref : {None} \cup RefChoices,
     run_AA : BOOLEAN,
     run_AC : BOOLEAN,
     no_filter : BOOLEAN,
     no_QC : BOOLEAN]

\* the options of the first mutually exclusive group present on the command line
InputKinds(v) ==
    {k \in {"bam", "fastqs", "completed_AA_runs"} :
        \/ k = "bam" /\ v.bam # None
        \/ k = "fastqs" /\ v.fastqs # None
        \/ k = "completed_AA_runs" /\ v.completed_AA_runs # None}

\* the options of group2 present on the command line
Group2Given(v) ==
    {k \in {"cnv_bed", "cnvkit_dir", "completed_run_metadata", "align_only"} :
        \/ k = "cnv_bed" /\ v.cnv_bed # None
        \/ k = "cnvkit_dir" /\ v.cnvkit_dir # ""
        \/ k = "completed_run_metadata" /\ v.completed_run_metadata # ""
        \/ k = "align_only" /\ v.align_only}

\* argparse rejects two options of the input group
InputGroupConflict(v) == Cardinality(InputKinds(v)) > 1

\* a group that only holds --cnv_bed and --cnvkit_dir
Group2Conflict_CnvPairOnly(v) == v.cnv_bed # None /\ v.cnvkit_dir # ""

\* argparse rejects two options of group2
Group2Conflict(v) == Cardinality(Group2Given(v)) > 1

\* the check for an input left out
NoInputGiven_Never(a) == FALSE

\* none of --bam, --fastqs, --completed_AA_runs has a value
NoInputGiven(a) ==
    ~(Truthy(a.bam) \/ Truthy(a.fastqs) \/ Truthy(a.completed_AA_runs))

-----------------------------------------------------------------------------
(* Leaving the script *)

\* sys.exit / parser.error / an uncaught exception, raised at the place `at'
Exit(code, kind, at) ==
    /\ pc' = "exited"
    /\ exitCode' = code
    /\ exitKind' = kind
    /\ exitAt' = at

Continue(next) ==
    /\ pc' = next
    /\ UNCHANGED <<exitCode, exitKind, exitAt>>

Init ==
    /\ argv \in Argvs
    /\ args = argv
    /\ pc = "parse_args"
    /\ exitCode = -1
    /\ exitKind = "running"
    /\ exitAt = "nowhere"
    /\ finish_flag \in FlagContents
    /\ timing_log = <<>>
    /\ launched = <<>>
    /\ nonzero = {}
    /\ runCNV = Unassigned
    /\ aln_stage_stderr = Unassigned
    /\ AA_outdir = Unassigned
    /\ AC_outdir = Unassigned
    /\ amplified_interval_bed = Unassigned
    /\ cnvkit_output_directory = Unassigned
    /\ metadata_dict = {}
    /\ run_metadata_writes = 0
    /\ detected = "not run"
    /\ substeps = <<>>
    /\ determined_ref = Unassigned
    /\ warnings = {}
    /\ call = [fn |-> "none"]
    /\ ret = [fn |-> "none"]

\* parser.parse_args(): the two mutually exclusive groups
ParseArgs ==
    /\ UNCHANGED <<fnvars, determined_ref, warnings>>
    /\ pc = "parse_args"
    /\ IF InputGroupConflict(argv) \/ Group2Conflict(argv)
       THEN Exit(2, "config", "parse_args")
       ELSE Continue("preflight")
    /\ UNCHANGED <<argv, args, finish_flag, timing_log, launched, nonzero,
                   runCNV, aln_stage_stderr, AA_outdir, AC_outdir,
                   amplified_interval_bed, cnvkit_output_directory,
                   metadata_dict, run_metadata_writes, detected, substeps>>

\* AA_DATA_REPO, --download_repo and the required arguments
Preflight ==
    /\ UNCHANGED <<fnvars, determined_ref, warnings>>
    /\ pc = "preflight"
    /\ \E repoSet \in BOOLEAN, download_repo \in BOOLEAN,
          sample_name \in {None, "s"}, nthreads \in {None, "4"} :
          IF ~repoSet THEN Exit(1, "env", "AA_DATA_REPO")
          ELSE IF download_repo THEN Exit(0, "download", "download_repo")
          ELSE IF ~Truthy(sample_name) THEN Exit(2, "config", "sample_name")
          ELSE IF ~Truthy(nthreads) THEN Exit(2, "config", "nthreads")
          ELSE IF NoInputGiven(args) THEN Exit(2, "config", "no_input")
          ELSE Continue("setup")
    /\ UNCHANGED <<argv, args, finish_flag, timing_log, launched, nonzero,
                   runCNV, aln_stage_stderr, AA_outdir, AC_outdir,
                   amplified_interval_bed, cnvkit_output_directory,
                   metadata_dict, run_metadata_writes, detected, substeps>>

\* output directory, logging, the finish flag and the timing log
Setup ==
    /\ UNCHANGED <<fnvars, determined_ref, warnings>>
    /\ pc = "setup"
    /\ \E slash \in BOOLEAN :
          IF slash
          THEN /\ Exit(1, "config", "sample_name_path")
               /\ UNCHANGED <<finish_flag, timing_log>>
          ELSE /\ finish_flag' = UNSUCCESSFUL
               /\ timing_log' = <<"#stage">>
               /\ Continue("env_checks")
    /\ UNCHANGED <<argv, args, launched, nonzero,
                   runCNV, aln_stage_stderr, AA_outdir, AC_outdir,
                   amplified_interval_bed, cnvkit_output_directory,
                   metadata_dict, run_metadata_writes, detected, substeps>>

\* samtools, AA_SRC and AC_SRC; get_samtools_version returns a pair in every
\* case, which is truthy, so the exit after it is never taken
EnvChecks ==
    /\ UNCHANGED <<fnvars, determined_ref, warnings>>
    /\ pc = "env_checks"
    /\ \E srcFound \in BOOLEAN :
          IF ~srcFound THEN Exit(1, "env", "AA_SRC") ELSE Continue("ref_preflight")
    /\ UNCHANGED <<argv, args, finish_flag, timing_log, launched, nonzero,
                   runCNV, aln_stage_stderr, AA_outdir, AC_outdir,
                   amplified_interval_bed, cnvkit_output_directory,
                   metadata_dict, run_metadata_writes, detected, substeps>>

\* the --ref check without the completed AA runs
RefRequiredMissing_FastqsOnly(a) == Truthy(a.fastqs) /\ ~Truthy(a.ref)

\* (args.fastqs or args.completed_AA_runs) and not args.ref
RefRequiredMissing(a) ==
    (Truthy(a.fastqs) \/ Truthy(a.completed_AA_runs)) /\ ~Truthy(a.ref)

\* --ref is required with fastq files and with completed AA runs
RefPreflight ==
    /\ UNCHANGED <<fnvars, determined_ref, warnings>>
    /\ pc = "ref_preflight"
    /\ IF RefRequiredMissing(args)
       THEN Exit(1, "reference", "ref_preflight")
       ELSE Continue("cnv_args")
    /\ UNCHANGED <<argv, args, finish_flag, timing_log, launched, nonzero,
                   runCNV, aln_stage_stderr, AA_outdir, AC_outdir,
                   amplified_interval_bed, cnvkit_output_directory,
                   metadata_dict, run_metadata_writes, detected, substeps>>

\* the literal value none of --completed_run_metadata becomes None
MetadataNoneLiteral(a) ==
    IF Lower(a.completed_run_metadata) = "none"
    THEN [a EXCEPT !.completed_run_metadata = None]
    ELSE a

\* none of the group2 options is set and there is something to call CNVs on
AssumeCnvkitOnPath(a) ==
    /\ ~(Truthy(a.cnv_bed) \/ Truthy(a.cnvkit_dir)
           \/ Truthy(a.completed_run_metadata) \/ a.align_only)
    /\ (Truthy(a.fastqs) \/ Truthy(a.bam))

\* the elif: a cnvkit directory given without its trailing slash
CnvkitDirNeedsSlash(a) ==
    /\ Truthy(a.cnvkit_dir)
    /\ ~EndsWith(a.cnvkit_dir, "/")
    /\ ~EndsWith(a.cnvkit_dir, "cnvkit.py")

\* if not args.cnvkit_dir.endswith("cnvkit.py"): args.cnvkit_dir += "cnvkit.py"
AppendCnvkitPy(a) ==
    IF EndsWith(a.cnvkit_dir, "cnvkit.py")
    THEN a
    ELSE [a EXCEPT !.cnvkit_dir = a.cnvkit_dir \o "cnvkit.py"]

\* normalisation of --cnvkit_dir and --completed_run_metadata
CnvArgs ==
    /\ UNCHANGED <<fnvars, determined_ref, warnings>>
    /\ pc = "cnv_args"
    /\ LET a1 == MetadataNoneLiteral(args)
       IN  IF AssumeCnvkitOnPath(a1)
           THEN \E found \in BOOLEAN :
                   IF found
                   THEN /\ args' = AppendCnvkitPy(
                                     [a1 EXCEPT !.cnvkit_dir = "/usr/bin/cnvkit.py"])
                        /\ Continue("select_cnv")
                   ELSE /\ args' = a1
                        /\ Exit(1, "env", "which_cnvkit")
           ELSE IF CnvkitDirNeedsSlash(a1)
           THEN /\ args' = AppendCnvkitPy(
                             [a1 EXCEPT !.cnvkit_dir = a1.cnvkit_dir \o "/"])
                /\ Continue("select_cnv")
           ELSE /\ args' = AppendCnvkitPy(
                             [a1 EXCEPT !.completed_run_metadata = None])
                /\ Continue("select_cnv")
    /\ UNCHANGED <<argv, finish_flag, timing_log, launched, nonzero,
                   runCNV, aln_stage_stderr, AA_outdir, AC_outdir,
                   amplified_interval_bed, cnvkit_output_directory,
                   metadata_dict, run_metadata_writes, detected, substeps>>

\* runCNV = "CNVkit" if args.cnvkit_dir and not args.cnv_bed
SelectsCNVkit(a) == Truthy(a.cnvkit_dir) /\ ~Truthy(a.cnv_bed)

\* the MOSEK licence, the choice of the CNV caller, Rscript and the interpreters
SelectCNV ==
    /\ UNCHANGED <<fnvars, determined_ref, warnings>>
    /\ pc = "select_cnv"
    /\ \E licence \in BOOLEAN, rscript \in BOOLEAN, interpreter \in BOOLEAN :
          IF args.run_AA /\ ~licence
          THEN /\ Exit(1, "env", "mosek")
               /\ UNCHANGED runCNV
          ELSE IF SelectsCNVkit(args) /\ ~rscript
          THEN /\ Exit(1, "env", "rscript")
               /\ runCNV' = "CNVkit"
          ELSE IF ~interpreter
          THEN /\ Exit(1, "config", "aa_python_interpreter")
               /\ runCNV' = IF SelectsCNVkit(args) THEN "CNVkit" ELSE None
          ELSE /\ Continue("resolve_ref")
               /\ runCNV' = IF SelectsCNVkit(args) THEN "CNVkit" ELSE None
    /\ UNCHANGED <<argv, args, finish_flag, timing_log, launched, nonzero,
                   aln_stage_stderr, AA_outdir, AC_outdir,
                   amplified_interval_bed, cnvkit_output_directory,
                   metadata_dict, run_metadata_writes, detected, substeps>>

\* hg38 and GRCm38 are other names of GRCh38 and mm10
NormalisedRef(r) ==
    IF r = "hg38" THEN "GRCh38" ELSE IF r = "GRCm38" THEN "mm10" ELSE r

\* the references of the data repo check_reference.check_ref can return
RepoRefs == {"hg19", "GRCh38"}

\* a BAM file that matches no reference taken as fatal in every case
RefUnresolved_AnyMismatch(determined, ref) == ~Truthy(determined)

\* not determined_ref and not args.ref
RefUnresolved(determined, ref) == ~Truthy(determined) /\ ~Truthy(ref)

\* elif not args.ref: args.ref = determined_ref
ResolvedRef(determined, ref) == IF ~Truthy(ref) THEN determined ELSE ref

\* elif args.ref and not determined_ref: the warning that the BAM file did
\* not match
RefMismatch(determined, ref) == Truthy(ref) /\ ~Truthy(determined)

\* the reference: given, or determined from the BAM file
ResolveRef ==
    /\ UNCHANGED fnvars
    /\ pc = "resolve_ref"
    /\ LET ref == NormalisedRef(args.ref)
       IN  IF ~Truthy(args.bam)
           THEN /\ args' = [args EXCEPT !.ref = ref]
                /\ Continue("load_repo")
                /\ UNCHANGED <<determined_ref, warnings>>
           ELSE \E spaces \in BOOLEAN, installed \in BOOLEAN,
                   found \in {None} \cup RepoRefs :
                   IF spaces
                   THEN /\ args' = [args EXCEPT !.ref = ref]
                        /\ Exit(1, "config", "bam_spaces")
                        /\ UNCHANGED <<determined_ref, warnings>>
                   ELSE IF Truthy(ref) /\ ~installed
                   THEN /\ args' = [args EXCEPT !.ref = ref]
                        /\ Exit(1, "env", "data_repo")
                        /\ UNCHANGED <<determined_ref, warnings>>
                   ELSE /\ Truthy(ref) => found \in {None, ref}
                        /\ determined_ref' = found
                        /\ IF RefUnresolved(found, ref)
                           THEN /\ args' = [args EXCEPT !.ref = ref]
                                /\ Exit(1, "reference", "check_ref")
                                /\ UNCHANGED warnings
                           ELSE /\ args' = [args EXCEPT !.ref = ResolvedRef(found, ref)]
                                /\ warnings' = IF RefMismatch(found, ref)
                                               THEN warnings \cup {"ref_mismatch"}
                                               ELSE warnings
                                /\ Continue("load_repo")
    /\ UNCHANGED <<argv, finish_flag, timing_log, launched, nonzero,
                   runCNV, aln_stage_stderr, AA_outdir, AC_outdir,
                   amplified_interval_bed, cnvkit_output_directory,
                   metadata_dict, run_metadata_writes, detected, substeps>>

\* the classification-only branch taken only when --run_AA is not set
TakesPipelineBranch_OrRunAA(a) == ~Truthy(a.completed_AA_runs) \/ a.run_AA

\* if not args.completed_AA_runs: the alignment .. classification flow
TakesPipelineBranch(a) == ~Truthy(a.completed_AA_runs)

\* the data repo paths, the CNV bed file, the sample metadata and the
\* Initialization line of the timing log
LoadRepo ==
    /\ UNCHANGED <<fnvars, determined_ref, warnings>>
    /\ pc = "load_repo"
    /\ \E installed \in BOOLEAN, bedIsFile \in BOOLEAN :
          IF ~Truthy(args.ref)
          THEN /\ Exit(1, "crash", "last_updated")
               /\ UNCHANGED <<timing_log, aln_stage_stderr>>
          ELSE IF ~Truthy(args.bam) /\ ~installed
          THEN /\ Exit(1, "crash", "ref_fasta")
               /\ UNCHANGED <<timing_log, aln_stage_stderr>>
          ELSE IF Truthy(args.cnv_bed) /\ ~bedIsFile
          THEN /\ Exit(1, "config", "cnv_bed_missing")
               /\ UNCHANGED <<timing_log, aln_stage_stderr>>
          ELSE /\ timing_log' = Append(timing_log, "Initialization")
               /\ aln_stage_stderr' = None
               /\ Continue(IF Truthy(args.fastqs) THEN "align"
                           ELSE IF TakesPipelineBranch(args) THEN "index_qc"
                           ELSE "completed_runs")
    /\ UNCHANGED <<argv, args, finish_flag, launched, nonzero,
                   runCNV, AA_outdir, AC_outdir,
                   amplified_interval_bed, cnvkit_output_directory,
                   metadata_dict, run_metadata_writes, detected, substeps>>

\* the exit status of an external process
ExitCodes == {0, 1}

\* the processes that have exited non-zero so far
Failed(name, code) == IF code # 0 THEN nonzero \cup {name} ELSE nonzero

\* the two fastq checks, then run_bwa; the exit status of bwa mem is not read
Align ==
    /\ UNCHANGED <<fnvars, determined_ref, warnings>>
    /\ pc = "align"
    /\ \E same \in BOOLEAN, spaces \in BOOLEAN, code \in ExitCodes :
          IF same \/ spaces
          THEN /\ Exit(1, "config", IF same THEN "fastqs_same" ELSE "fastqs_spaces")
               /\ UNCHANGED <<args, launched, nonzero, aln_stage_stderr,
                              metadata_dict>>
          ELSE /\ launched' = Append(launched, "align")
               /\ nonzero' = Failed("bwa", code)
               /\ metadata_dict' = metadata_dict \cup {"bwa_cmd"}
               /\ args' = [args EXCEPT !.bam = "s.cs.rmdup.bam"]
               /\ aln_stage_stderr' = "s_aln_stage.stderr"
               /\ Continue("index_qc")
    /\ UNCHANGED <<argv, finish_flag, timing_log, runCNV, AA_outdir, AC_outdir,
                   amplified_interval_bed, cnvkit_output_directory,
                   run_metadata_writes, detected, substeps>>

\* --align_only overridden by --run_AA
AlignOnlyExit_UnlessRunAA(a) == a.align_only /\ ~a.run_AA

\* if args.align_only: the script ends after indexing and QC
AlignOnlyExit(a) == a.align_only

\* the BAM index, the QC of the BAM file, and the exit of --align_only
IndexQC ==
    /\ UNCHANGED <<fnvars, determined_ref, warnings>>
    /\ pc = "index_qc"
    /\ IF ~Truthy(args.bam)
       THEN /\ Exit(1, "crash", "bam_index")
            /\ UNCHANGED <<launched, timing_log>>
       ELSE /\ launched' = Append(launched, "index_qc")
            /\ IF AlignOnlyExit(args)
               THEN /\ timing_log' = timing_log \o
                        <<"Alignment, indexing and QC", "Total_elapsed_walltime">>
                    /\ Exit(0, "clean", "align_only")
               ELSE /\ timing_log' = Append(timing_log, "Alignment, indexing and QC")
                    /\ Continue("cnv_calling")
    /\ UNCHANGED <<argv, args, finish_flag, nonzero, runCNV, aln_stage_stderr,
                   AA_outdir, AC_outdir, amplified_interval_bed,
                   cnvkit_output_directory, metadata_dict, run_metadata_writes,
                   detected, substeps>>

\* --ploidy and --purity (in percent); NoValue is Python's None
NoValue == -1

PloidyChoices == {NoValue, 3}

PurityChoices == {NoValue, 0, 30, 50}

\* Python truthiness of an optional number
TruthyNum(x) == x # NoValue /\ x # 0

\* if args.ploidy or args.purity
Rescales(ploidy, purity) == TruthyNum(ploidy) \/ TruthyNum(purity)

\* rescale_cnvkit_calls: `purity < 0.4' raises TypeError under Python 3 when
\* purity is None, and is true under Python 2
RescaleRaises(purity, python3) == purity = NoValue /\ python3

\* the segmentation table convert_cnvkit_cns_to_bed reads
ConvertedCns(cnsfile, rescaled) ==
    IF cnsfile # None THEN cnsfile
    ELSE IF ~rescaled THEN "s.cns" ELSE "s_rescaled.cns"

\* CNVkit (batch, segment, rescaling, conversion) when it was selected, the
\* conversion of a given .cns file, and the CNV calling line of the timing log
CNVCalling ==
    /\ UNCHANGED <<fnvars, determined_ref, warnings>>
    /\ pc = "cnv_calling"
    /\ \E segment \in ExitCodes, ploidy \in PloidyChoices,
          purity \in PurityChoices, python3 \in BOOLEAN :
          IF runCNV = "CNVkit"
          THEN /\ cnvkit_output_directory' = "s_cnvkit_output/"
               /\ launched' = Append(launched, "cnv_calling")
               /\ nonzero' = Failed("cnvkit_segment", segment)
               /\ IF segment # 0
                  THEN /\ Exit(1, "stage", "cnvkit_segment")
                       /\ metadata_dict' = metadata_dict \cup {"cnvkit_version"}
                       /\ UNCHANGED <<args, timing_log, substeps>>
                  ELSE /\ metadata_dict' =
                              metadata_dict \cup {"cnvkit_version", "cnvkit_cmd"}
                       /\ IF Rescales(ploidy, purity) /\ RescaleRaises(purity, python3)
                          THEN /\ Exit(1, "crash", "rescale_purity")
                               /\ UNCHANGED <<args, timing_log, substeps>>
                          ELSE /\ substeps' = substeps \o
                                    (IF Rescales(ploidy, purity)
                                     THEN <<"rescale">> ELSE <<>>) \o
                                    <<"convert " \o
                                      ConvertedCns(None, Rescales(ploidy, purity))>>
                               /\ args' = [args EXCEPT !.cnv_bed = "s_CNV_CALLS.bed"]
                               /\ timing_log' = Append(timing_log, "CNV calling")
                               /\ Continue("seed_filter")
          ELSE /\ cnvkit_output_directory' = None
               /\ UNCHANGED <<launched, nonzero, metadata_dict>>
               /\ IF ~Truthy(args.cnv_bed)
                  THEN /\ Exit(1, "crash", "cnv_bed_endswith")
                       /\ UNCHANGED <<args, timing_log, substeps>>
                  ELSE /\ IF EndsWith(args.cnv_bed, ".cns")
                          THEN /\ substeps' = Append(substeps,
                                    "convert " \o ConvertedCns(args.cnv_bed, FALSE))
                               /\ args' = [args EXCEPT !.cnv_bed = "s_CNV_CALLS.bed"]
                          ELSE UNCHANGED <<args, substeps>>
                       /\ timing_log' = Append(timing_log, "CNV calling")
                       /\ Continue("seed_filter")
    /\ UNCHANGED <<argv, finish_flag, runCNV, aln_stage_stderr, AA_outdir,
                   AC_outdir, amplified_interval_bed, run_metadata_writes,
                   detected>>

\* not args.no_filter and not args.cnv_bed.endswith("_AA_CNV_SEEDS.bed")
RunsSeedFilter(a) ==
    ~a.no_filter /\ ~EndsWith(a.cnv_bed, "_AA_CNV_SEEDS.bed")

\* elif args.no_filter and runCNV
PrefilterOnly(a, cnv) == a.no_filter /\ Truthy(cnv)

\* the bed file is not yet the output of cnv_prefilter
NeedsPrefilter(bed) ==
    /\ ~EndsWith(bed, "_CNV_CALLS_pre_filtered.bed")
    /\ ~EndsWith(bed, "_CNV_CALLS_unfiltered_gains.bed")

\* cnv_prefilter.prefilter_bed where needed, amplified_intervals.py unless
\* skipped, and the Seed filtering line of the timing log
SeedFilter ==
    /\ UNCHANGED <<fnvars, determined_ref, warnings>>
    /\ pc = "seed_filter"
    /\ \E code \in ExitCodes :
          IF RunsSeedFilter(args)
          THEN /\ substeps' = IF NeedsPrefilter(args.cnv_bed)
                              THEN Append(substeps, "prefilter") ELSE substeps
               /\ args' = IF NeedsPrefilter(args.cnv_bed)
                          THEN [args EXCEPT !.cnv_bed = "s_CNV_CALLS_pre_filtered.bed"]
                          ELSE args
               /\ launched' = Append(launched, "seed_filter")
               /\ nonzero' = Failed("amplified_intervals", code)
               /\ IF code # 0
                  THEN /\ Exit(1, "stage", "amplified_intervals")
                       /\ UNCHANGED <<amplified_interval_bed, metadata_dict,
                                      timing_log>>
                  ELSE /\ amplified_interval_bed' = "s_AA_CNV_SEEDS.bed"
                       /\ metadata_dict' =
                              metadata_dict \cup {"amplified_intervals_cmd"}
                       /\ timing_log' = Append(timing_log, "Seed filtering")
                       /\ Continue("run_AA")
          ELSE IF PrefilterOnly(args, runCNV)
          THEN /\ code = 0
               /\ substeps' = IF NeedsPrefilter(args.cnv_bed)
                              THEN Append(substeps, "prefilter") ELSE substeps
               /\ args' = IF NeedsPrefilter(args.cnv_bed)
                          THEN [args EXCEPT !.cnv_bed = "s_CNV_CALLS_pre_filtered.bed"]
                          ELSE args
               /\ timing_log' = Append(timing_log, "Seed filtering")
               /\ Continue("run_AA")
               /\ UNCHANGED <<launched, nonzero, amplified_interval_bed,
                              metadata_dict>>
          ELSE /\ code = 0
               /\ amplified_interval_bed' = args.cnv_bed
               /\ timing_log' = Append(timing_log, "Seed filtering")
               /\ Continue("run_AA")
               /\ UNCHANGED <<args, launched, nonzero, metadata_dict, substeps>>
    /\ UNCHANGED <<argv, finish_flag, runCNV, aln_stage_stderr, AA_outdir,
                   AC_outdir, cnvkit_output_directory, run_metadata_writes,
                   detected>>

\* if args.run_AA: AmpliconArchitect on the seed intervals
RunAA ==
    /\ UNCHANGED <<fnvars, determined_ref, warnings>>
    /\ pc = "run_AA"
    /\ \E code \in ExitCodes :
          IF ~args.run_AA
          THEN /\ code = 0
               /\ Continue("save_metadata")
               /\ UNCHANGED <<AA_outdir, launched, nonzero, metadata_dict,
                              timing_log>>
          ELSE /\ AA_outdir' = "s_AA_results/"
               /\ IF amplified_interval_bed = Unassigned
                  THEN /\ code = 0
                       /\ Exit(1, "crash", "amplified_interval_bed")
                       /\ UNCHANGED <<launched, nonzero, metadata_dict, timing_log>>
                  ELSE /\ launched' = Append(launched, "reconstruction")
                       /\ nonzero' = Failed("AA", code)
                       /\ IF code # 0
                          THEN /\ Exit(1, "stage", "AA")
                               /\ metadata_dict' = metadata_dict \cup {"AA_version"}
                               /\ UNCHANGED timing_log
                          ELSE /\ metadata_dict' =
                                      metadata_dict \cup {"AA_version", "AA_cmd"}
                               /\ timing_log' = Append(timing_log, "AmpliconArchitect")
                               /\ Continue("run_AC")
    /\ UNCHANGED <<argv, args, finish_flag, runCNV, aln_stage_stderr, AC_outdir,
                   amplified_interval_bed, cnvkit_output_directory,
                   run_metadata_writes, detected, substeps>>

\* if args.run_AC, inside if args.run_AA: AmpliconClassifier on the AA results
RunAC ==
    /\ UNCHANGED <<fnvars, determined_ref, warnings>>
    /\ pc = "run_AC"
    /\ IF args.run_AC
       THEN /\ AC_outdir' = "s_classification/"
            /\ launched' = Append(launched, "classification")
            /\ metadata_dict' = metadata_dict \cup {"AC_cmd", "AC_version"}
            /\ timing_log' = Append(timing_log, "AmpliconClassifier")
       ELSE UNCHANGED <<AC_outdir, launched, metadata_dict, timing_log>>
    /\ Continue("save_metadata")
    /\ UNCHANGED <<argv, args, finish_flag, nonzero, runCNV, aln_stage_stderr,
                   AA_outdir, amplified_interval_bed, cnvkit_output_directory,
                   run_metadata_writes, detected, substeps>>

\* the keys save_run_metadata fills with NA when no stage set them
StageKeys == {"bwa_cmd", "cnvkit_cmd", "amplified_intervals_cmd", "AA_cmd",
              "AC_cmd", "cnvkit_version", "AA_version", "AC_version"}

\* save_run_metadata, the sample metadata, and the results table of the
\* classification when both AA and AC ran
SaveMetadata ==
    /\ UNCHANGED <<fnvars, determined_ref, warnings>>
    /\ pc = "save_metadata"
    /\ run_metadata_writes' = run_metadata_writes + 1
    /\ substeps' = IF args.run_AA /\ args.run_AC
                   THEN Append(substeps, "make_AC_table s_run_metadata.json")
                   ELSE substeps
    /\ Continue("validate")
    /\ UNCHANGED <<argv, args, finish_flag, timing_log, launched, nonzero,
                   runCNV, aln_stage_stderr, AA_outdir, AC_outdir,
                   amplified_interval_bed, cnvkit_output_directory,
                   metadata_dict, detected>>

\* the else branch: AmpliconClassifier on completed AA runs
CompletedRuns ==
    /\ UNCHANGED <<fnvars, determined_ref, warnings>>
    /\ pc = "completed_runs"
    /\ IF ~Truthy(args.ref)
       THEN /\ Exit(1, "reference", "completed_runs_ref")
            /\ UNCHANGED <<AC_outdir, launched, metadata_dict, timing_log, substeps>>
       ELSE /\ AC_outdir' = "s_classification/"
            /\ launched' = Append(launched, "classification")
            /\ metadata_dict' = metadata_dict \cup {"AC_cmd", "AC_version"}
            /\ timing_log' = Append(timing_log, "AmpliconClassifier")
            /\ substeps' = Append(substeps,
                   "make_AC_table " \o args.completed_run_metadata)
            /\ Continue("validate")
    /\ UNCHANGED <<argv, args, finish_flag, nonzero, runCNV, aln_stage_stderr,
                   AA_outdir, amplified_interval_bed, cnvkit_output_directory,
                   run_metadata_writes, detected>>

-----------------------------------------------------------------------------
(* detect_run_failure *)

\* the largest amplicon count of a summary file
MaxAmps == 2

\* what detect_run_failure can find on disk: whether grep finds "error" in
\* the alignment log, the summary file of AA, the cycles files of non-zero
\* size, and the two tables of the classification
Summaries ==
    [kind : {"missing", "noline", "garbage"}, n : {0}]
        \cup [kind : {"count"}, n : -1 .. MaxAmps]

FileStates == {"missing", "empty", "ok"}

Filesystems ==
    [aln_errs : BOOLEAN,
     summary : Summaries,
     cycles : SUBSET (1 .. MaxAmps + 1),
     profiles : FileStates,
     result_table : FileStates]

\* namps after the loop over the lines of the summary file
Namps(fs) == IF fs.summary.kind = "count" THEN fs.summary.n ELSE -1

RECURSIVE CyclesLoop(_, _, _, _)
\* for x in range(1, namps + 1), from x on: os.stat of the cycles file of x,
\* returning at the first one that is missing or empty; `stat' collects the
\* indices whose file was looked at
CyclesLoop(x, namps, fs, stat) ==
    IF x > namps THEN [failure |-> FALSE, stat |-> stat]
    ELSE IF x \notin fs.cycles THEN [failure |-> TRUE, stat |-> stat \cup {x}]
    ELSE CyclesLoop(x + 1, namps, fs, stat \cup {x})

\* the loop taken one index further
CyclesCheck_OneMore(namps, fs) == CyclesLoop(1, namps + 1, fs, {})

\* the loop over the cycles files of the amplicons 1..namps
CyclesCheck(namps, fs) == CyclesLoop(1, namps, fs, {})

\* the block under `if AA_outdir'
AAFailure(fs) ==
    IF fs.summary.kind = "missing" THEN TRUE
    ELSE \/ Namps(fs) < 0
         \/ CyclesCheck(Namps(fs), fs).failure

\* failure only when both tables are missing or empty
ACFailure_BothBad(fs) == fs.profiles # "ok" /\ fs.result_table # "ok"

\* the block under `if AC_outdir': one try around both os.stat calls
ACFailure(fs) ==
    LET bothExist == fs.profiles # "missing" /\ fs.result_table # "missing"
        fsize1 == IF bothExist /\ fs.profiles = "ok" THEN 1 ELSE 0
        fsize2 == IF bothExist /\ fs.result_table = "ok" THEN 1 ELSE 0
    IN  fsize1 = 0 \/ fsize2 = 0

\* grep -i error run whether or not a log was given
AlignFailure_IgnoresAbsence(align_stderr_file, fs) == fs.aln_errs

\* the alignment log is given and grep -i error finds a line
AlignFailure(align_stderr_file, fs) == Truthy(align_stderr_file) /\ fs.aln_errs

\* int() of the amplicon count raises ValueError
DetectRaises(align_stderr_file, AA_dir, AC_dir, fs) ==
    /\ ~AlignFailure(align_stderr_file, fs)
    /\ Truthy(AA_dir)
    /\ fs.summary.kind = "garbage"

\* the value detect_run_failure returns when it returns
detect_run_failure(align_stderr_file, AA_dir, AC_dir, fs) ==
    IF AlignFailure(align_stderr_file, fs) THEN TRUE
    ELSE IF Truthy(AA_dir) /\ AAFailure(fs) THEN TRUE
    ELSE IF Truthy(AC_dir) /\ ACFailure(fs) THEN TRUE
    ELSE FALSE

-----------------------------------------------------------------------------
(* The end of the script *)

\* the success marker written whatever detect_run_failure returned
SuccessMarkerWritten_Always(failure) == TRUE

\* if not detect_run_failure(...): the success marker is written
SuccessMarkerWritten(failure) == ~failure

\* the two resets, detect_run_failure on the outputs, and the success marker
Validate ==
    /\ UNCHANGED <<fnvars, determined_ref, warnings>>
    /\ pc = "validate"
    /\ AA_outdir' = IF ~args.run_AA THEN None ELSE AA_outdir
    /\ AC_outdir' = IF ~args.run_AC THEN None ELSE AC_outdir
    /\ \E fs \in Filesystems :
          IF AA_outdir' = Unassigned \/ AC_outdir' = Unassigned
          THEN /\ Exit(1, "crash", "detect_args")
               /\ UNCHANGED <<detected, finish_flag>>
          ELSE IF DetectRaises(aln_stage_stderr, AA_outdir', AC_outdir', fs)
          THEN /\ Exit(1, "crash", "detect_int")
               /\ UNCHANGED <<detected, finish_flag>>
          ELSE LET failure == detect_run_failure(aln_stage_stderr, AA_outdir',
                                                 AC_outdir', fs)
               IN  /\ detected' = IF failure THEN "failure" ELSE "no failure"
                   /\ finish_flag' = IF SuccessMarkerWritten(failure)
                                     THEN AllStagesCompleted ELSE finish_flag
                   /\ Continue("finish")
    /\ UNCHANGED <<argv, args, timing_log, launched, nonzero, runCNV,
                   aln_stage_stderr, amplified_interval_bed,
                   cnvkit_output_directory, metadata_dict, run_metadata_writes,
                   substeps>>

\* the total line of the timing log; the script ends with status zero
Finish ==
    /\ UNCHANGED <<fnvars, determined_ref, warnings>>
    /\ pc = "finish"
    /\ timing_log' = Append(timing_log, "Total_elapsed_walltime")
    /\ Exit(0, "clean", "end")
    /\ UNCHANGED <<argv, args, finish_flag, launched, nonzero, runCNV,
                   aln_stage_stderr, AA_outdir, AC_outdir,
                   amplified_interval_bed, cnvkit_output_directory,
                   metadata_dict, run_metadata_writes, detected, substeps>>

Next ==
    \/ ParseArgs \/ Preflight \/ Setup \/ EnvChecks \/ RefPreflight
    \/ CnvArgs \/ SelectCNV \/ ResolveRef \/ LoadRepo
    \/ Align \/ IndexQC \/ CNVCalling \/ SeedFilter \/ RunAA \/ RunAC
    \/ SaveMetadata \/ CompletedRuns \/ Validate \/ Finish

Spec == Init /\ [][Next]_vars

-----------------------------------------------------------------------------
(* Properties *)

Range(q) == {q[i] : i \in 1 .. Len(q)}

\* the run was given exactly this input kind
InputIs(k) == InputKinds(argv) = {k}

\* the script has ended
Exited == pc = "exited"

\* the script ended on a fatal error of the pipeline: a configuration error,
\* an unresolved reference, or a stage that exited non-zero
FatalError == Exited /\ exitKind \in {"config", "reference", "stage"}

\* C1: on any fatal error (configuration error, unresolved reference, critical
\* stage exiting non-zero) the finish flag file holds exactly UNSUCCESSFUL
\* when the process exits, wherever the error is raised and whatever the
\* output directory held before.
C1_FlagUnsuccessfulOnFatalError == FatalError => finish_flag = UNSUCCESSFUL

\* C2: every run that executes its whole stage plan without a fatal error,
\* and in which detect_run_failure finds no failure, ends with the success
\* marker in the finish flag, the plan truncated by --align_only included.
C2_CleanRunMarkedSuccessful ==
    (Exited /\ exitKind = "clean" /\ detected # "failure")
        => finish_flag = AllStagesCompleted

\* C3: when detect_run_failure reports a failure the run is not aborted: the
\* finish flag stays UNSUCCESSFUL, the total line is still written to the
\* timing log, and the process exits with status zero.
C3_ValidationFailureNotFatal ==
    detected = "failure" =>
        /\ finish_flag = UNSUCCESSFUL
        /\ pc \in {"finish", "exited"}
        /\ Exited => /\ exitCode = 0
                     /\ exitAt = "end"
                     /\ timing_log[Len(timing_log)] = "Total_elapsed_walltime"

C3_Witness ==
    /\ Exited
    /\ detected = "failure"
    /\ nonzero = {}
    /\ "reconstruction" \in Range(launched)

\* the critical stages: alignment, the segment step of CNVkit, AA
CriticalProcesses == {"bwa", "cnvkit_segment", "AA"}

\* C4: if the external process of a critical stage exits non-zero the run
\* aborts immediately: no later stage is launched, the process exits
\* non-zero and the finish flag remains UNSUCCESSFUL.
C4_CriticalFailureAborts ==
    nonzero \cap CriticalProcesses # {} =>
        /\ Exited
        /\ exitCode # 0
        /\ finish_flag = UNSUCCESSFUL

\* the CNV interval file given on the command line is a seed file
SeedFileGiven(v) == v.cnv_bed # None /\ EndsWith(v.cnv_bed, "_AA_CNV_SEEDS.bed")

Opt(b, stage) == IF b THEN <<stage>> ELSE <<>>

\* the stage plan the claim gives for raw reads and alignment files
ExpectedPlan(v) ==
    Opt(v.fastqs # None, "align")
        \o <<"index_qc">>
        \o Opt(v.cnv_bed = None, "cnv_calling")
        \o Opt(~v.no_filter /\ ~SeedFileGiven(v), "seed_filter")
        \o Opt(v.run_AA, "reconstruction")
        \o Opt(v.run_AA /\ v.run_AC, "classification")

\* C5: for raw reads and alignment files the stages launched are exactly the
\* plan, in order: a run without --align_only that got past seed filtering
\* with every external process exiting zero has launched, when it ends,
\* exactly the stages of the plan, reconstruction if and only if requested.
C5_StagesLaunchedArePlan ==
    (/\ Exited
     /\ InputIs("bam") \/ InputIs("fastqs")
     /\ ~argv.align_only
     /\ nonzero = {}
     /\ "Seed filtering" \in Range(timing_log))
        => launched = ExpectedPlan(argv)

\* C6: with completed AA runs and a reference the plan is classification
\* only: no other stage is ever launched, and every run that got past
\* initialization launches the classification, whatever --run_AA, --run_AC,
\* --no_filter and --no_QC say.
C6_PriorResultsPlan ==
    (InputIs("completed_AA_runs") /\ argv.ref # None) =>
        /\ launched \in {<<>>, <<"classification">>}
        /\ substeps = <<>> \/ Len(substeps) = 1
        /\ (pc \in {"validate", "finish"}
                \/ (Exited /\ "Initialization" \in Range(timing_log)))
              => launched = <<"classification">>

C6_Witness ==
    /\ InputIs("completed_AA_runs")
    /\ argv.no_filter /\ argv.no_QC /\ ~argv.run_AC /\ ~argv.run_AA
    /\ exitAt = "end"
    /\ launched = <<"classification">>

\* C7: with completed AA runs or raw reads and no --ref the run fails with a
\* fatal error before any stage is launched, at the --ref check at the
\* latest, and the reference is never inferred.
C7_ReferenceRequired ==
    ((InputIs("completed_AA_runs") \/ InputIs("fastqs")) /\ argv.ref = None) =>
        /\ launched = <<>>
        /\ args.ref = None
        /\ pc \in {"parse_args", "preflight", "setup", "env_checks",
                   "ref_preflight", "exited"}
        /\ Exited => exitKind \in {"env", "config", "reference", "download"}
        /\ exitKind = "reference" => exitCode = 1 /\ exitAt = "ref_preflight"

C7_Witness ==
    /\ InputIs("completed_AA_runs")
    /\ argv.ref = None
    /\ exitAt = "ref_preflight"
    /\ exitCode = 1
    /\ finish_flag = UNSUCCESSFUL

\* C8: with --align_only, for raw reads and alignment files, the run ends
\* right after indexing and QC: CNV calling, rescaling, conversion, seed
\* filtering, reconstruction and classification are never launched, whatever
\* --run_AA and --run_AC say.
C8_AlignOnlyTruncates ==
    (argv.align_only /\ (InputIs("bam") \/ InputIs("fastqs"))) =>
        /\ Range(launched) \subseteq {"align", "index_qc"}
        /\ substeps = <<>>
        /\ "index_qc" \in Range(launched) => Exited /\ exitAt = "align_only"

C8_Witness ==
    /\ argv.align_only /\ argv.run_AA /\ argv.run_AC
    /\ exitAt = "align_only"
    /\ launched = <<"align", "index_qc">>

\* C9: --cnv_bed, --cnvkit_dir, --completed_run_metadata and --align_only
\* are pairwise exclusive: any two of them fail with a configuration error
\* before any stage runs, whatever the other flags and the input kind.
C9_Group2Exclusive ==
    (\E k1, k2 \in Group2Given(argv) : k1 # k2) =>
        /\ launched = <<>>
        /\ pc \in {"parse_args", "exited"}
        /\ Exited => exitKind = "config" /\ exitCode = 2 /\ exitAt = "parse_args"

C9_Witness ==
    /\ Group2Given(argv) = {"completed_run_metadata", "align_only"}
    /\ InputIs("bam")
    /\ Exited
    /\ exitKind = "config"

\* the places the script can leave from before the input kind is settled
BeforeInputClassification ==
    \/ pc \in {"parse_args", "preflight"}
    \/ Exited /\ exitAt \in {"parse_args", "AA_DATA_REPO", "download_repo",
                             "sample_name", "nthreads", "no_input"}

\* a stage beyond input classification is running or has run
StageRunning ==
    \/ pc \in {"align", "index_qc", "cnv_calling", "seed_filter", "run_AA",
               "run_AC", "save_metadata", "completed_runs", "validate", "finish"}
    \/ launched # <<>>

\* C10: every run that gets past input classification was given exactly one
\* input kind, and the reference genome is set in every state in which a
\* stage beyond input classification is running.
C10_RunSpecInvariant ==
    /\ ~BeforeInputClassification => Cardinality(InputKinds(argv)) = 1
    /\ StageRunning => args.ref \in RepoRefs

C10_Witness ==
    /\ InputIs("bam")
    /\ argv.ref = None
    /\ args.ref = "GRCh38"
    /\ "index_qc" \in Range(launched)

\* C11: with a BAM file given and check_ref called: without --ref and with a
\* match the run proceeds with the matched reference; without --ref and
\* without a match the run fails before any stage; with --ref and without
\* a match only a warning is logged and the run proceeds with the given
\* reference.
C11_ReferenceResolution ==
    (InputIs("bam") /\ determined_ref # Unassigned) =>
        /\ (argv.ref = None /\ Truthy(determined_ref)) =>
              /\ args.ref = determined_ref
              /\ exitKind # "reference"
              /\ warnings = {}
        /\ (argv.ref = None /\ ~Truthy(determined_ref)) =>
              /\ Exited /\ exitAt = "check_ref" /\ exitCode = 1
              /\ launched = <<>>
        /\ (argv.ref # None /\ ~Truthy(determined_ref)) =>
              /\ args.ref = NormalisedRef(argv.ref)
              /\ exitKind # "reference"
              /\ warnings = {"ref_mismatch"}
        /\ (argv.ref # None /\ Truthy(determined_ref)) =>
              /\ args.ref = NormalisedRef(argv.ref)
              /\ warnings = {}

C11_Witness ==
    /\ InputIs("bam")
    /\ argv.ref = "hg38"
    /\ determined_ref = None
    /\ args.ref = "GRCh38"
    /\ "index_qc" \in Range(launched)

\* ---------------------------------------------------------------------
\* Functions of the script called on their own
\* ---------------------------------------------------------------------

\* no run of the script is in progress while a function is called on its own
MainIdle ==
    /\ argv = [bam |-> None, fastqs |-> None, completed_AA_runs |-> None,
               cnv_bed |-> None, cnvkit_dir |-> "",
               completed_run_metadata |-> "", align_only |-> FALSE,
               ref |-> None, run_AA |-> FALSE, run_AC |-> FALSE,
               no_filter |-> FALSE, no_QC |-> FALSE]
    /\ args = argv
    /\ pc = "idle"
    /\ exitCode = -1
    /\ exitKind = "running"
    /\ exitAt = "nowhere"
    /\ finish_flag = Absent
    /\ timing_log = <<>>
    /\ launched = <<>>
    /\ nonzero = {}
    /\ runCNV = Unassigned
    /\ aln_stage_stderr = Unassigned
    /\ AA_outdir = Unassigned
    /\ AC_outdir = Unassigned
    /\ amplified_interval_bed = Unassigned
    /\ cnvkit_output_directory = Unassigned
    /\ metadata_dict = {}
    /\ run_metadata_writes = 0
    /\ detected = "not run"
    /\ substeps = <<>>
    /\ determined_ref = Unassigned
    /\ warnings = {}

\* ---------------------------------------------------------------------
\* convert_cnvkit_cns_to_bed
\* ---------------------------------------------------------------------

MaxRows == 2
MaxLog2 == 2

\* the header line of a .cns file, split at the tabs
CnsHeader == <<"chromosome", "start", "end", "gene", "log2">>

\* the lines of a .cns file after the header, split at the tabs; the log2
\* column holds whole numbers here, so that 2 ** (cn_r + 1) is exact
CnsLines ==
    {<<c, se[1], se[2], g, r>> :
        c \in {"chr1", "chr2"},
        se \in {<<0, 1>>, <<100, 200>>, <<0, 100000000>>},
        g \in {"-"},
        r \in -MaxLog2..MaxLog2}

RECURSIVE SeqsUpTo(_, _)
SeqsUpTo(S, n) ==
    IF n = 0 THEN {<<>>}
    ELSE LET shorter == SeqsUpTo(S, n - 1)
         IN shorter \cup {Append(q, x) : q \in {t \in shorter : Len(t) = n - 1},
                                         x \in S}

\* the .cns files CNVkit writes: a header and the segments
CnsFiles == {<<CnsHeader>> \o rows : rows \in SeqsUpTo(CnsLines, MaxRows)}

\* the exponent of the copy number, without the shift by one
CopyNumber_NoShift(cn_r) ==
    IF cn_r >= 0 THEN [num |-> 2 ^ cn_r, den |-> 1]
    ELSE [num |-> 1, den |-> 2 ^ (0 - cn_r)]

\* cn = 2 ** (cn_r + 1), as the fraction num / den
CopyNumber(cn_r) ==
    IF cn_r + 1 >= 0 THEN [num |-> 2 ^ (cn_r + 1), den |-> 1]
    ELSE [num |-> 1, den |-> 2 ^ (0 - (cn_r + 1))]

\* fields[0:3] + ["CNVkit", str(cn)] with cn_r = float(fields[4])
BedLine(fields) == SubSeq(fields, 1, 3) \o <<"CNVkit", CopyNumber(fields[5])>>

\* next(infile) takes the header; the loop writes one line per later line
BedLines(infile) ==
    LET lines == Tail(infile)
    IN [i \in 1..Len(lines) |-> BedLine(lines[i])]

\* the arguments of one call: the file named by the arguments holds `infile`
ConvertCalls ==
    [fn : {"convert_cnvkit_cns_to_bed"},
     base : {"s"},
     cnsfile : {None, "calls.cns"},
     rescaled : BOOLEAN,
     infile : CnsFiles]

ConvertInit ==
    /\ MainIdle
    /\ call \in ConvertCalls
    /\ ret = [fn |-> "none"]

\* convert_cnvkit_cns_to_bed(cnvkit_output_directory, base, cnsfile, rescaled)
Convert ==
    /\ call.fn = "convert_cnvkit_cns_to_bed"
    /\ ret.fn = "none"
    /\ ret' = [fn |-> call.fn,
               opened |-> ConvertedCns(call.cnsfile, call.rescaled),
               outfile |-> BedLines(call.infile),
               value |-> call.base \o "_CNV_CALLS.bed"]
    /\ UNCHANGED <<call, mainvars>>

ConvertNext == Convert

ConvertSpec == ConvertInit /\ [][ConvertNext]_vars

\* C12: the output holds one interval per segment of the input, in the
\* input's order, with the segment's chromosome, start and end, the label
\* "CNVkit" and the copy number 2^(log2 + 1), log2 being the 5th column
\* (log2 = 0 gives 2); no segment is dropped or merged for its size.
C12_OneIntervalPerSegment ==
    ret.fn = "convert_cnvkit_cns_to_bed" =>
        LET segs == Tail(call.infile)
            out == ret.outfile
        IN /\ Len(out) = Len(segs)
           /\ \A i \in 1..Len(segs) :
                /\ Len(out[i]) = 5
                /\ out[i][1] = segs[i][1]
                /\ out[i][2] = segs[i][2]
                /\ out[i][3] = segs[i][3]
                /\ out[i][4] = "CNVkit"
                /\ IF segs[i][5] + 1 >= 0
                   THEN out[i][5].num = out[i][5].den * 2 ^ (segs[i][5] + 1)
                   ELSE out[i][5].den = out[i][5].num * 2 ^ (0 - segs[i][5] - 1)
                /\ segs[i][5] = 0 => out[i][5] = [num |-> 2, den |-> 1]

C12_Witness ==
    /\ ret.fn = "convert_cnvkit_cns_to_bed"
    /\ Len(call.infile) = 3
    /\ call.infile[2] = <<"chr1", 0, 1, "-", 0>>
    /\ call.infile[3] = <<"chr1", 0, 100000000, "-", -2>>
    /\ ret.outfile = << <<"chr1", 0, 1, "CNVkit", [num |-> 2, den |-> 1]>>,
                        <<"chr1", 0, 100000000, "CNVkit", [num |-> 1, den |-> 2]>> >>

\* ---------------------------------------------------------------------
\* rescale_cnvkit_calls
\* ---------------------------------------------------------------------

MaxPurity == 50
MaxPloidy == 3

\* the 0.4 of `purity < 0.4`, in percent like every purity of the model
LowPurityThreshold == 40

\* the comparison taken as `purity <= 0.4`
LowPurity_Inclusive(purity) ==
    IF purity = NoValue THEN TRUE ELSE purity <= LowPurityThreshold

\* purity < 0.4 where the comparison is defined: Python 2 orders None
\* before every number
LowPurity(purity) ==
    IF purity = NoValue THEN TRUE ELSE purity < LowPurityThreshold

\* the warnings logged by the time the function returns or raises
RescaleWarnings(ploidy, purity, python3) ==
    (IF purity = NoValue /\ ploidy = NoValue THEN {"no_effect"} ELSE {}) \cup
    (IF ~RescaleRaises(purity, python3) /\ LowPurity(purity)
     THEN {"low_purity"} ELSE {})

\* cnsfile defaults to the table of the segment step
RescaledCns(cnsfile) == IF cnsfile = None THEN "s.cns" ELSE cnsfile

\* the cnvkit.py command line: --purity and --ploidy only for truthy values
RescaleCmd(cnsfile, ploidy, purity) ==
    [sub |-> "call",
     cnsfile |-> RescaledCns(cnsfile),
     method |-> "clonal",
     purity |-> IF TruthyNum(purity) THEN purity ELSE NoValue,
     ploidy |-> IF TruthyNum(ploidy) THEN ploidy ELSE NoValue,
     out |-> "s_rescaled.cns"]

\* the arguments of one call and the interpreter that runs the script
RescaleCalls ==
    [fn : {"rescale_cnvkit_calls"},
     cnsfile : {None, "calls.cns"},
     ploidy : {NoValue} \cup 0..MaxPloidy,
     purity : {NoValue} \cup 0..MaxPurity,
     python3 : BOOLEAN]

RescaleInit ==
    /\ MainIdle
    /\ call \in RescaleCalls
    /\ ret = [fn |-> "none"]

\* rescale_cnvkit_calls(ckpy_path, cnvkit_output_directory, base, cnsfile,
\* ploidy, purity): the TypeError of `None < 0.4` leaves before the command
Rescale ==
    /\ call.fn = "rescale_cnvkit_calls"
    /\ ret.fn = "none"
    /\ ret' = [fn |-> call.fn,
               raised |-> RescaleRaises(call.purity, call.python3),
               warnings |-> RescaleWarnings(call.ploidy, call.purity,
                                            call.python3),
               called |-> ~RescaleRaises(call.purity, call.python3),
               cmd |-> RescaleCmd(call.cnsfile, call.ploidy, call.purity)]
    /\ UNCHANGED <<call, mainvars>>

RescaleNext == Rescale

RescaleSpec == RescaleInit /\ [][RescaleNext]_vars

\* C13: for every purity p with 0 < p < 0.4 the low-purity warning is logged
\* and the rescale command is still run; for every p >= 0.4 no low-purity
\* warning is logged.
C13_LowPurityWarning ==
    (ret.fn = "rescale_cnvkit_calls" /\ call.purity # NoValue) =>
        /\ (0 < call.purity /\ call.purity < 40) =>
              /\ "low_purity" \in ret.warnings
              /\ ~ret.raised
              /\ ret.called
              /\ ret.cmd.purity = call.purity
        /\ call.purity >= 40 => "low_purity" \notin ret.warnings

C13_Witness ==
    /\ ret.fn = "rescale_cnvkit_calls"
    /\ call.purity = 39
    /\ ret.warnings = {"low_purity"}
    /\ ret.called

\* C14: when purity or ploidy is supplied (purity alone, ploidy alone, or
\* both) the rescale completes, runs the rescale command of CNVkit with
\* exactly the supplied parameters, and the conversion that follows reads
\* the rescaled table.
C14_RescaleDelegates ==
    (/\ ret.fn = "rescale_cnvkit_calls"
     /\ call.cnsfile = None
     /\ call.purity # 0 /\ call.ploidy # 0
     /\ Rescales(call.ploidy, call.purity)) =>
        /\ ~ret.raised
        /\ ret.called
        /\ ret.cmd.purity = call.purity
        /\ ret.cmd.ploidy = call.ploidy
        /\ ConvertedCns(None, Rescales(call.ploidy, call.purity)) = ret.cmd.out

\* C15: called with neither purity nor ploidy, the function logs the
\* no-effect warning, returns normally and runs no rescale command.
C15_NoEffectIsNoOp ==
    (/\ ret.fn = "rescale_cnvkit_calls"
     /\ call.purity = NoValue /\ call.ploidy = NoValue) =>
        /\ "no_effect" \in ret.warnings
        /\ ~ret.raised
        /\ ~ret.called

\* ---------------------------------------------------------------------
\* get_ref_centromeres
\* ---------------------------------------------------------------------

MaxCentromereRows == 3

\* the 20kb added on each side
Padding == 20000

\* the lines of a centromere file: `tagged` says that the line holds
\* "centromere" or "acen"; the positions are kept as the numbers that the
\* decimal strings of the dictionary stand for
CentromereLines ==
    [chrom : {"chr1", "chr2"},
     start : {121000000, 121010000},
     end : {125000000, 125030000},
     tagged : BOOLEAN]

CentromereFiles == SeqsUpTo(CentromereLines, MaxCentromereRows)

Min2(a, b) == IF a < b THEN a ELSE b

Max2(a, b) == IF a > b THEN a ELSE b

\* the body of the loop for one line of the file
CentromereStep(dict, line) ==
    IF ~line.tagged THEN dict
    ELSE IF line.chrom \notin DOMAIN dict
    THEN [c \in DOMAIN dict \cup {line.chrom} |->
            IF c = line.chrom THEN <<line.start, line.end>> ELSE dict[c]]
    ELSE [dict EXCEPT ![line.chrom] =
            <<Min2(dict[line.chrom][1], line.start) - Padding,
              Max2(dict[line.chrom][2], line.end) + Padding>>]

RECURSIVE CentromereLoop(_, _)
\* for line in infile, from the dictionary built so far
CentromereLoop(dict, lines) ==
    IF lines = <<>> THEN dict
    ELSE CentromereLoop(CentromereStep(dict, Head(lines)), Tail(lines))

\* centromere_dict starts empty
EmptyDict == [c \in {} |-> <<0, 0>>]

CentromereInit ==
    /\ MainIdle
    /\ call \in [fn : {"get_ref_centromeres"}, infile : CentromereFiles]
    /\ ret = [fn |-> "none"]

\* get_ref_centromeres(ref_name)
GetRefCentromeres ==
    /\ call.fn = "get_ref_centromeres"
    /\ ret.fn = "none"
    /\ ret' = [fn |-> call.fn,
               centromere_dict |-> CentromereLoop(EmptyDict, call.infile)]
    /\ UNCHANGED <<call, mainvars>>

CentromereNext == GetRefCentromeres

CentromereSpec == CentromereInit /\ [][CentromereNext]_vars

\* the tagged lines of a file for one chromosome
TaggedRows(infile, chrom) ==
    {i \in 1..Len(infile) : infile[i].tagged /\ infile[i].chrom = chrom}

\* C16: for every chromosome with one, two or more centromere rows, in any
\* order of the rows, the span of the map is (smallest start - 20000,
\* largest end + 20000): the padding is applied exactly once on each side.
C16_PaddedOnceAnyOrder ==
    ret.fn = "get_ref_centromeres" =>
        \A chrom \in {"chr1", "chr2"} :
            LET rows == TaggedRows(call.infile, chrom)
            IN rows # {} =>
                /\ chrom \in DOMAIN ret.centromere_dict
                /\ \E lo \in rows : \E hi \in rows :
                    /\ \A i \in rows : call.infile[lo].start <= call.infile[i].start
                    /\ \A i \in rows : call.infile[hi].end >= call.infile[i].end
                    /\ ret.centromere_dict[chrom] =
                          <<call.infile[lo].start - 20000,
                            call.infile[hi].end + 20000>>

\* ---------------------------------------------------------------------
\* detect_run_failure
\* ---------------------------------------------------------------------

\* the arguments of one call and what is on disk when it is made
DetectCalls ==
    [fn : {"detect_run_failure"},
     align_stderr_file : {None, "s_aln_stage.stderr"},
     AA_outdir : {None, "s_AA_results/"},
     AC_outdir : {None, "s_classification/"},
     fs : Filesystems]

\* the block that makes the function return True: "none" when it returns
\* False, and the AA block when the function raises there
FailedAt(align_stderr_file, AA_dir, AC_dir, fs) ==
    IF AlignFailure(align_stderr_file, fs) THEN "align"
    ELSE IF DetectRaises(align_stderr_file, AA_dir, AC_dir, fs) THEN "AA"
    ELSE IF Truthy(AA_dir) /\ AAFailure(fs) THEN "AA"
    ELSE IF Truthy(AC_dir) /\ ACFailure(fs) THEN "AC"
    ELSE "none"

\* the blocks entered, in the order of the code, up to the one that returns
DetectChecks(align_stderr_file, AA_dir, AC_dir, fs) ==
    LET at == FailedAt(align_stderr_file, AA_dir, AC_dir, fs)
    IN  (IF Truthy(align_stderr_file) THEN <<"align">> ELSE <<>>) \o
        (IF at # "align" /\ Truthy(AA_dir) THEN <<"AA">> ELSE <<>>) \o
        (IF at \notin {"align", "AA"} /\ Truthy(AC_dir) THEN <<"AC">> ELSE <<>>)

\* the indices of the cycles files given to os.stat
StatCycles(align_stderr_file, AA_dir, AC_dir, fs) ==
    IF /\ ~AlignFailure(align_stderr_file, fs)
       /\ Truthy(AA_dir)
       /\ fs.summary.kind = "count"
       /\ Namps(fs) >= 0
    THEN CyclesCheck(Namps(fs), fs).stat
    ELSE {}

DetectInit ==
    /\ MainIdle
    /\ call \in DetectCalls
    /\ ret = [fn |-> "none"]

\* detect_run_failure(align_stderr_file, AA_outdir, sname, AC_outdir): the
\* value is meaningful when the function did not raise
Detect ==
    /\ call.fn = "detect_run_failure"
    /\ ret.fn = "none"
    /\ LET a == call.align_stderr_file
           aa == call.AA_outdir
           ac == call.AC_outdir
       IN  ret' = [fn |-> call.fn,
                   raised |-> DetectRaises(a, aa, ac, call.fs),
                   value |-> IF DetectRaises(a, aa, ac, call.fs) THEN FALSE
                             ELSE detect_run_failure(a, aa, ac, call.fs),
                   failed_at |-> FailedAt(a, aa, ac, call.fs),
                   checks |-> DetectChecks(a, aa, ac, call.fs),
                   stat |-> StatCycles(a, aa, ac, call.fs)]
    /\ UNCHANGED <<call, mainvars>>

DetectNext == Detect

DetectSpec == DetectInit /\ [][DetectNext]_vars

Returned == ret.fn = "detect_run_failure"

\* C17: with an AA directory given and a summary declaring N >= 0
\* amplicons, the AA check reports failure exactly when one of the cycles
\* files 1..N is missing or empty, and no cycles file above N is looked at.
C17_CyclesFilesOneToN ==
    (/\ Returned
     /\ "AA" \in Range(ret.checks)
     /\ call.fs.summary.kind = "count"
     /\ call.fs.summary.n >= 0) =>
        LET N == call.fs.summary.n
        IN  /\ ~ret.raised
            /\ (ret.value /\ ret.failed_at = "AA") <=>
                  (\E x \in 1..N : x \notin call.fs.cycles)
            /\ ret.stat \subseteq 1..N

C17_Witness ==
    /\ Returned
    /\ call.AA_outdir # None
    /\ call.AC_outdir = None
    /\ call.fs.summary = [kind |-> "count", n |-> 2]
    /\ call.fs.cycles = {1, 2, 3}
    /\ ret.stat = {1, 2}
    /\ ~ret.value

\* C18: with an AA directory given and a summary file that is missing, has
\* no count line, or has a count that is no number, the function returns
\* True and does not raise.
C18_MalformedSummaryReturnsTrue ==
    (/\ Returned
     /\ "AA" \in Range(ret.checks)
     /\ call.fs.summary.kind \in {"missing", "noline", "garbage"}) =>
        /\ ~ret.raised
        /\ ret.value

\* C19: with an AC directory given and no failure found before, the function
\* returns True exactly when one of the two tables is missing or empty, in
\* all combinations of the states of the two files.
C19_EitherTableBad ==
    (/\ Returned
     /\ "AC" \in Range(ret.checks)) =>
        /\ ~ret.raised
        /\ ret.value <=> (\/ call.fs.profiles \in {"missing", "empty"}
                          \/ call.fs.result_table \in {"missing", "empty"})

C19_Witness ==
    /\ Returned
    /\ call.AA_outdir # None
    /\ call.fs.profiles = "ok"
    /\ call.fs.result_table = "missing"
    /\ ret.failed_at = "AC"
    /\ ret.value

\* the checks whose argument is present, in the order of the code
PresentChecks ==
    (IF call.align_stderr_file # None THEN <<"align">> ELSE <<>>) \o
    (IF call.AA_outdir # None THEN <<"AA">> ELSE <<>>) \o
    (IF call.AC_outdir # None THEN <<"AC">> ELSE <<>>)

\* C20: a check whose argument is absent is skipped and finds no failure
\* whatever is on disk; without an AA directory the result depends on no AA
\* file; with all three arguments absent the result is False; the checks
\* present are made in the order alignment log, AA, AC, and the function
\* returns at the first failure.
C20_AbsentSkippedInOrder ==
    Returned =>
        /\ call.align_stderr_file = None =>
              "align" \notin Range(ret.checks) /\ ret.failed_at # "align"
        /\ call.AA_outdir = None =>
              /\ "AA" \notin Range(ret.checks) /\ ret.failed_at # "AA"
              /\ ret.stat = {} /\ ~ret.raised
              /\ ret.value <=>
                    \/ call.align_stderr_file # None /\ call.fs.aln_errs
                    \/ call.AC_outdir # None /\
                         (call.fs.profiles # "ok" \/ call.fs.result_table # "ok")
        /\ call.AC_outdir = None =>
              "AC" \notin Range(ret.checks) /\ ret.failed_at # "AC"
        /\ PresentChecks = <<>> => ~ret.raised /\ ~ret.value
        /\ Len(ret.checks) <= Len(PresentChecks)
        /\ ret.checks = SubSeq(PresentChecks, 1, Len(ret.checks))
        /\ (~ret.raised /\ ~ret.value) => ret.checks = PresentChecks
        /\ (ret.value \/ ret.raised) =>
              /\ ret.checks # <<>>
              /\ ret.failed_at = ret.checks[Len(ret.checks)]
        /\ ret.value <=> (~ret.raised /\ ret.failed_at # "none")

C20_Witness ==
    /\ Returned
    /\ PresentChecks = <<"align", "AA", "AC">>
    /\ call.fs.aln_errs = FALSE
    /\ call.fs.summary.kind = "missing"
    /\ call.fs.profiles = "missing"
    /\ ret.checks = <<"align", "AA">>
    /\ ret.value

\* ---------------------------------------------------------------------
\* The outputs of a run
\* ---------------------------------------------------------------------

\* the number of lines of the timing log with a label
Lines(label) ==
    Cardinality({i \in 1..Len(timing_log) : timing_log[i] = label})

\* what ran in the run under each label of the timing log; a conversion of
\* a .cns file counts as CNV calling and the prefilter as seed filtering
Executed(label) ==
    CASE label = "Alignment, indexing and QC" ->
            "index_qc" \in Range(launched)
      [] label = "CNV calling" ->
            \/ "cnv_calling" \in Range(launched)
            \/ \E i \in 1..Len(substeps) :
                  substeps[i] \in {"convert s.cns", "convert s_rescaled.cns",
                                   "convert calls.cns"}
      [] label = "Seed filtering" ->
            \/ "seed_filter" \in Range(launched)
            \/ "prefilter" \in Range(substeps)
      [] label = "AmpliconArchitect" -> "reconstruction" \in Range(launched)
      [] label = "AmpliconClassifier" -> "classification" \in Range(launched)

StageLabels == {"Alignment, indexing and QC", "CNV calling", "Seed filtering",
                "AmpliconArchitect", "AmpliconClassifier"}

\* C21: at the end of a run that reaches its end the timing log holds one
\* line for each stage that ran and completed, no line for a stage that was
\* skipped, and the total line last.
C21_TimingLinesForStagesRun ==
    (Exited /\ exitAt = "end") =>
        /\ timing_log[Len(timing_log)] = "Total_elapsed_walltime"
        /\ Lines("Total_elapsed_walltime") = 1
        /\ \A label \in StageLabels :
              Lines(label) = IF Executed(label) THEN 1 ELSE 0

\* C22: every run that completes its plan, whatever its input kind, has
\* written the run metadata file exactly once when it ends.
C22_MetadataWrittenOnce ==
    (Exited /\ exitAt = "end") => run_metadata_writes = 1

\* detect_run_failure was called with the values AA_outdir and AC_outdir hold
DetectorInvoked ==
    \/ pc = "finish"
    \/ Exited /\ exitAt \in {"end", "detect_int"}

\* C23: in every run that reaches the validation, the detector is given an
\* AA directory exactly when AA ran in this run and an AC directory exactly
\* when AC ran in this run, and reading the two arguments never fails
\* because one of them was never assigned.
C23_DetectorArgumentsMatchStages ==
    /\ ~(Exited /\ exitAt = "detect_args")
    /\ DetectorInvoked =>
          /\ Truthy(AA_outdir) <=> "reconstruction" \in Range(launched)
          /\ Truthy(AC_outdir) <=> "classification" \in Range(launched)

\* C24: when AA is about to be run its seed intervals are defined, whatever
\* the source of the CNV calls (CNVkit run, interval file, seed file) and
\* whether or not --no_filter was given.
C24_SeedIntervalsDefined ==
    /\ (pc = "run_AA" /\ args.run_AA) => amplified_interval_bed # Unassigned
    /\ ~(Exited /\ exitAt = "amplified_interval_bed")
    /\ "reconstruction" \in Range(launched) =>
          amplified_interval_bed # Unassigned

\* the run metadata file the user gave, None for none or the literal none
SuppliedRunMetadata ==
    IF argv.completed_run_metadata \in {"", "none"} THEN None
    ELSE argv.completed_run_metadata

\* C25: on completed AA runs the metadata file given by the user reaches the
\* results table step unchanged; the step gets none only when the user gave
\* none or the literal value none.
C25_RunMetadataCarried ==
    (InputIs("completed_AA_runs") /\ "classification" \in Range(launched)) =>
        ("make_AC_table " \o SuppliedRunMetadata) \in Range(substeps)
====
